---------------------------- MODULE Spec2Model ----------------------------
(***************************************************************************)
(* A model of agent.py: the ShoppingAgent (run, decide_next_action,        *)
(* is_intent_malicious), the three actions (Search, GetProductDetails,     *)
(* Clarify) and the session loop of main.                                  *)
(*                                                                         *)
(* The hosted model ("oracle"), SearchClient and the safety predicate are  *)
(* collaborators: the agent's code is checked against every outcome they   *)
(* can produce, the outcomes of the shipped stubs among them.              *)
(***************************************************************************)
EXTENDS Naturals, Sequences, FiniteSets, TLC

VARIABLES
    pc,                    \* position of the caller / of run
    policy,                \* the messages is_intent_malicious answers True for
    conversation_history,  \* the caller's list (main's conversation_history)
    default_history,       \* the list object behind run's default argument
    histArg,               \* which list run's parameter is bound to
    user_message,          \* run's user_message
    request,               \* `messages` as sent to the oracle
    response,              \* the oracle's response in flight
    action,                \* the action decide_next_action returned
    exc,                   \* the exception in flight
    reply,                 \* run's return value
    calls,                 \* per turn: invocations of resolver, oracle, execute, collaborator
    inputs,                \* the calls of run so far: message, and history as passed
    replies,               \* the replies the caller received, in order
    caller,                \* "main" (the session loop) or "test" (a harness calling run)
    stub                   \* the answers the harness's test doubles have given so far

vars == <<pc, policy, conversation_history, default_history, histArg, user_message,
          request, response, action, exc, reply, calls, inputs, replies, caller,
          stub>>

----------------------------------------------------------------------------
(* Bounds *)

MaxTurns == 2
MaxCalls == 2
MaxHistLen == 2

Roles == {"user", "assistant", "system", "tool"}

Contents == {"hi", "Which color?"}

RECURSIVE SeqsUpTo(_, _)
SeqsUpTo(S, n) ==
    IF n = 0 THEN {<< >>}
    ELSE LET shorter == SeqsUpTo(S, n - 1)
         IN shorter \cup {Append(q, x) : q \in {r \in shorter : Len(r) = n - 1}, x \in S}

----------------------------------------------------------------------------
(* Data *)

SYSTEM_PROMPT ==
    "You are a shopping assistant. Use these functions:\n"
    \o "1. search_products: When user wants to find products (e.g., \"show me shirts\")\n"
    \o "2. get_product_details: When user asks about a specific product ID (e.g., \"tell me about product p1\")\n"
    \o "3. clarify_request: When user's request is unclear"

Messages == {"show me shirts", "tell me about product p1"}

Turn(role, content) == [role |-> role, content |-> content]

\* JSON values as json.loads builds them
JNull == [t |-> "null"]
JNum(n) == [t |-> "num", n |-> n]
JStr(s) == [t |-> "str", s |-> s]
JArr(xs) == [t |-> "arr", items |-> xs]
JObj(kvs) == [t |-> "obj", items |-> kvs]

HasKey(obj, k) == \E i \in DOMAIN obj.items : obj.items[i][1] = k

Get(obj, k) == obj.items[CHOOSE i \in DOMAIN obj.items : obj.items[i][1] = k][2]

\* tool_call.function.arguments: "", text that is not JSON, or the text of a JSON value
RawEmpty == [raw |-> "empty"]
RawGarbage == [raw |-> "garbage"]
RawJson(v) == [raw |-> "json", value |-> v]

JsonValues ==
    { JObj(<< <<"keywords", JArr(<<JStr("shirt")>>)>> >>),
      JObj(<< <<"keywords", JNum(5)>> >>),
      JObj(<< <<"product_id", JStr("p1")>> >>),
      JObj(<< <<"product_id", JArr(<<JStr("p1")>>)>> >>),
      JObj(<< <<"question", JStr("Which color?")>> >>),
      JObj(<< >>),
      JArr(<<JStr("shirt")>>),
      JNull }

RawArguments == {RawEmpty, RawGarbage} \cup {RawJson(v) : v \in JsonValues}

FunctionNames == {"search_products", "get_product_details", "clarify_request", "delete_everything"}

NoFunction == [absent |-> TRUE]

\* what client.chat.completions.create can do: raise, or return a response
OracleOutcomes ==
    { [kind |-> "error"], [kind |-> "no_choices"], [kind |-> "no_tool_calls"],
      [kind |-> "tool_call", function |-> NoFunction] }
    \cup { [kind |-> "tool_call", function |-> [name |-> n, arguments |-> a]] :
             n \in FunctionNames, a \in RawArguments }

NoResponse == [kind |-> "none"]

NoAction == [variant |-> "None"]

NoExc == [cls |-> "none", site |-> "none", desc |-> ""]

Exc(cls, site, desc) == [cls |-> cls, site |-> site, desc |-> desc]

----------------------------------------------------------------------------
(* decide_next_action: the message list *)

\* ForwardTurn without the role test: every turn is forwarded as it is
ForwardTurn_AnyRole(msg) == <<Turn(msg.role, msg.content)>>

\* one iteration of the loop over conversation_history: the if/elif chain
ForwardTurn(msg) ==
    IF msg.role = "user" THEN <<Turn("user", msg.content)>>
    ELSE IF msg.role = "assistant" THEN <<Turn("assistant", msg.content)>>
    ELSE IF msg.role = "system" THEN <<Turn("system", msg.content)>>
    ELSE << >>

RECURSIVE ForwardHistory(_, _)
\* the loop: messages after the turns of history from index i on are appended
ForwardHistory(messages, history) ==
    IF history = << >> THEN messages
    ELSE ForwardHistory(messages \o ForwardTurn(Head(history)), Tail(history))

\* `messages` as passed to client.chat.completions.create
BuildMessages(um, history) ==
    Append(ForwardHistory(<<Turn("system", SYSTEM_PROMPT)>>, history), Turn("user", um))

----------------------------------------------------------------------------
(* decide_next_action: from the oracle's response to an action *)

\* json.loads: JSONDecodeError on text that is not JSON, otherwise the value
json_loads(raw) ==
    IF raw.raw = "json" THEN [ok |-> TRUE, value |-> raw.value]
    ELSE [ok |-> FALSE, value |-> JNull]

PyTypeName(v) ==
    CASE v.t = "null" -> "NoneType"
      [] v.t = "num" -> "int"
      [] v.t = "str" -> "str"
      [] v.t = "arr" -> "list"
      [] OTHER -> "dict"

IsStr(v) == v.t = "str"

IsStrList(v) == v.t = "arr" /\ \A i \in DOMAIN v.items : IsStr(v.items[i])

StrItems(v) == [i \in DOMAIN v.items |-> v.items[i].s]

Returned(a) == [kind |-> "return", action |-> a, exc |-> NoExc]

Raised(e) == [kind |-> "raise", action |-> NoAction, exc |-> e]

\* Model(**function_args), before the field's type is looked at: TypeError
\* unless function_args is a mapping, ValidationError when the required field
\* is absent (keys the model does not declare are ignored)
BindField(cls, field, v) ==
    IF v.t # "obj"
    THEN Exc("TypeError", "resolve",
             cls \o "() argument after ** must be a mapping, not " \o PyTypeName(v))
    ELSE IF ~HasKey(v, field)
    THEN Exc("ValidationError", "resolve",
             "1 validation error for " \o cls \o "\n" \o field \o "\n  Field required")
    ELSE NoExc

WrongType(cls, field, expected) ==
    Exc("ValidationError", "resolve",
        "1 validation error for " \o cls \o "\n" \o field \o "\n  Input should be a valid "
        \o expected)

\* Search(**function_args): keywords: List[str]
Search(v) ==
    IF BindField("Search", "keywords", v) # NoExc
    THEN Raised(BindField("Search", "keywords", v))
    ELSE IF ~IsStrList(Get(v, "keywords"))
    THEN Raised(WrongType("Search", "keywords", "list"))
    ELSE Returned([variant |-> "Search", keywords |-> StrItems(Get(v, "keywords"))])

\* GetProductDetails(**function_args): product_id: str
GetProductDetails(v) ==
    IF BindField("GetProductDetails", "product_id", v) # NoExc
    THEN Raised(BindField("GetProductDetails", "product_id", v))
    ELSE IF ~IsStr(Get(v, "product_id"))
    THEN Raised(WrongType("GetProductDetails", "product_id", "string"))
    ELSE Returned([variant |-> "GetProductDetails", product_id |-> Get(v, "product_id").s])

\* Clarify(**function_args): question: str
Clarify(v) ==
    IF BindField("Clarify", "question", v) # NoExc
    THEN Raised(BindField("Clarify", "question", v))
    ELSE IF ~IsStr(Get(v, "question"))
    THEN Raised(WrongType("Clarify", "question", "string"))
    ELSE Returned([variant |-> "Clarify", question |-> Get(v, "question").s])

\* the part of decide_next_action after the API call
ResolveResponse(resp) ==
    IF resp.kind \in {"no_choices", "no_tool_calls"} THEN Returned(NoAction)
    ELSE IF resp.function = NoFunction \/ resp.function.arguments = RawEmpty
    THEN Returned(NoAction)
    ELSE LET fn == resp.function
             parsed == json_loads(fn.arguments)
         IN IF ~parsed.ok THEN Returned(NoAction)
            ELSE IF fn.name = "search_products" THEN Search(parsed.value)
            ELSE IF fn.name = "get_product_details" THEN GetProductDetails(parsed.value)
            ELSE IF fn.name = "clarify_request" THEN Clarify(parsed.value)
            ELSE Returned(NoAction)

----------------------------------------------------------------------------
(* The actions' execute, given what the collaborator did *)

RECURSIVE Join(_, _)
Join(strs, sep) ==
    IF strs = << >> THEN ""
    ELSE IF Len(strs) = 1 THEN strs[1]
    ELSE strs[1] \o sep \o Join(Tail(strs), sep)

\* SearchClient.search as shipped
StubRows == << [id |-> "p1", name |-> "Product 1"], [id |-> "p2", name |-> "Product 2"] >>

\* SearchClient.get_product_details as shipped
StubProduct(product_id) ==
    [id |-> product_id, name |-> "Product " \o product_id, price |-> "19.99",
     description |-> "A great product."]

\* what SearchClient().search can do when execute calls it: the shipped rows,
\* no rows, or a failure of the backend
SearchOutcomes ==
    { [kind |-> "rows", rows |-> StubRows], [kind |-> "rows", rows |-> << >>],
      [kind |-> "raise", rows |-> << >>] }

\* what SearchClient().get_product_details can do: the shipped product, a
\* falsy result, or a failure of the backend
DetailsOutcomes(product_id) ==
    { [kind |-> "found", product |-> StubProduct(product_id)],
      [kind |-> "missing", product |-> StubProduct(product_id)],
      [kind |-> "raise", product |-> StubProduct(product_id)] }

SearchExecute(self, out) ==
    IF out.kind = "raise"
    THEN [kind |-> "raise", text |-> "",
          exc |-> Exc("ConnectionError", "execute", "search backend unreachable")]
    ELSE IF out.rows = << >>
    THEN [kind |-> "return", text |-> "Sorry I couldn't find any products for your search.",
          exc |-> NoExc]
    ELSE LET products == [i \in DOMAIN out.rows |->
                             out.rows[i].name \o " (ID: " \o out.rows[i].id \o ")"]
         IN [kind |-> "return",
             text |-> "Here are the products I found: " \o Join(products, ", "),
             exc |-> NoExc]

GetProductDetailsExecute(self, out) ==
    IF out.kind = "raise"
    THEN [kind |-> "raise", text |-> "",
          exc |-> Exc("ConnectionError", "execute", "details backend unreachable")]
    ELSE IF out.kind = "missing"
    THEN [kind |-> "return", text |-> "Product " \o self.product_id \o " not found",
          exc |-> NoExc]
    ELSE [kind |-> "return",
          text |-> out.product.name \o ": price: $" \o out.product.price \o " - "
                   \o out.product.description,
          exc |-> NoExc]

ClarifyExecute(self) == [kind |-> "return", text |-> self.question, exc |-> NoExc]

----------------------------------------------------------------------------
(* run's fixed replies *)

Refusal == "Sorry! I cannot process this request."

Fallback == "I'm not sure how to respond to that."

Apology(e) == "Sorry, I encountered an error: " \o e.desc

\* The predicate is a function of the message alone. As shipped it returns
\* False for every message (policy = {}); Init also admits the other policies
\* a substituted classifier can implement.
is_intent_malicious(message) == message \in policy

----------------------------------------------------------------------------
(* State *)

NoCalls == [resolver |-> 0, oracle |-> 0, execute |-> 0, collaborator |-> 0]

NoStub == [oracle |-> << >>, search |-> << >>, details |-> << >>]

\* the list run's conversation_history parameter is bound to
ArgHistory == IF histArg = "default" THEN default_history ELSE conversation_history

\* The harness's test doubles are deterministic: the same call gets the same
\* answer. The session's collaborators are live and answer freely.
MayAnswer(kind, key, out) ==
    (caller = "test" /\ key \in DOMAIN stub[kind]) => out = stub[kind][key]

Remember(kind, key, out) ==
    IF caller = "test" THEN [stub EXCEPT ![kind] = (key :> out) @@ @] ELSE stub

InitCommon ==
    /\ policy \in SUBSET Messages
    /\ default_history = << >>
    /\ histArg = "caller"
    /\ request = << >>
    /\ response = NoResponse
    /\ action = NoAction
    /\ exc = NoExc
    /\ reply = ""
    /\ calls = NoCalls
    /\ replies = << >>
    /\ stub = NoStub

\* main: agent = ShoppingAgent(); conversation_history = []
Init ==
    /\ InitCommon
    /\ caller = "main"
    /\ conversation_history = << >>
    /\ user_message = ""
    /\ inputs = << >>
    /\ pc = "input"

\* what every call of run starts from
EnterRun(um, ref, history) ==
    /\ user_message' = um
    /\ histArg' = ref
    /\ request' = << >>
    /\ response' = NoResponse
    /\ action' = NoAction
    /\ exc' = NoExc
    /\ reply' = ""
    /\ calls' = NoCalls
    /\ inputs' = Append(inputs, [msg |-> um, ref |-> ref, history |-> history])
    /\ pc' = "gate"

----------------------------------------------------------------------------
(* main *)

\* input() gives a message other than "bye": append the user turn, call run
MainInput ==
    /\ pc = "input"
    /\ Len(replies) < MaxTurns
    /\ \E um \in Messages :
          /\ conversation_history' = Append(conversation_history, Turn("user", um))
          /\ EnterRun(um, "caller", conversation_history')
    /\ UNCHANGED <<policy, default_history, replies, caller, stub>>

\* input() gives "bye": the loop ends
MainBye ==
    /\ pc = "input"
    /\ pc' = "exit"
    /\ UNCHANGED <<policy, conversation_history, default_history, histArg, user_message,
                   request, response, action, exc, reply, calls, inputs, replies, caller,
                   stub>>

\* MainRecord recording the assistant turn only when the turn did not fail
MainRecord_SkipsFailedTurn ==
    /\ pc = "returned"
    /\ caller = "main"
    /\ conversation_history' =
          IF exc = NoExc THEN Append(conversation_history, Turn("assistant", reply))
          ELSE conversation_history
    /\ replies' = Append(replies, reply)
    /\ pc' = "input"
    /\ UNCHANGED <<policy, default_history, histArg, user_message, request, response,
                   action, exc, reply, calls, inputs, caller, stub>>

\* run has returned: print the response, append the assistant turn
MainRecord ==
    /\ pc = "returned"
    /\ caller = "main"
    /\ conversation_history' = Append(conversation_history, Turn("assistant", reply))
    /\ replies' = Append(replies, reply)
    /\ pc' = "input"
    /\ UNCHANGED <<policy, default_history, histArg, user_message, request, response,
                   action, exc, reply, calls, inputs, caller, stub>>

----------------------------------------------------------------------------
(* ShoppingAgent.run and what it calls *)

\* RunGate without the early return: the refusal is computed, the turn goes on
RunGate_NoReturn ==
    /\ pc = "gate"
    /\ reply' = IF is_intent_malicious(user_message) THEN Refusal ELSE reply
    /\ pc' = "decide"
    /\ UNCHANGED <<policy, conversation_history, default_history, histArg, user_message,
                   request, response, action, exc, calls, inputs, replies, caller, stub>>

\* if self.is_intent_malicious(user_message): return the refusal
RunGate ==
    /\ pc = "gate"
    /\ IF is_intent_malicious(user_message)
       THEN reply' = Refusal /\ pc' = "returned"
       ELSE reply' = reply /\ pc' = "decide"
    /\ UNCHANGED <<policy, conversation_history, default_history, histArg, user_message,
                   request, response, action, exc, calls, inputs, replies, caller, stub>>

\* OracleCall appending the current user turn to the history argument itself
\* (conversation_history.append in place of messages.append)
OracleCall_AppendsToHistory ==
    /\ pc = "decide"
    /\ request' = BuildMessages(user_message, ArgHistory)
    /\ calls' = [calls EXCEPT !.resolver = @ + 1, !.oracle = @ + 1]
    /\ pc' = "awaiting"
    /\ IF histArg = "default"
       THEN /\ default_history' = Append(default_history, Turn("user", user_message))
            /\ conversation_history' = conversation_history
       ELSE /\ conversation_history' = Append(conversation_history, Turn("user", user_message))
            /\ default_history' = default_history
    /\ UNCHANGED <<policy, histArg, user_message, response, action, exc, reply, inputs,
                   replies, caller, stub>>

\* decide_next_action up to client.chat.completions.create: the message list
\* is built from the history argument, which is only read, and the call is issued
OracleCall ==
    /\ pc = "decide"
    /\ request' = BuildMessages(user_message, ArgHistory)
    /\ calls' = [calls EXCEPT !.resolver = @ + 1, !.oracle = @ + 1]
    /\ pc' = "awaiting"
    /\ UNCHANGED <<policy, conversation_history, default_history, histArg, user_message,
                   response, action, exc, reply, inputs, replies, caller, stub>>

\* the blocking call completes: it raises, or returns a response
OracleAnswer ==
    /\ pc = "awaiting"
    /\ \E out \in OracleOutcomes :
          /\ MayAnswer("oracle", request, out)
          /\ stub' = Remember("oracle", request, out)
          /\ IF out.kind = "error"
             THEN /\ exc' = Exc("APIConnectionError", "oracle", "Connection error.")
                  /\ response' = response
                  /\ pc' = "except"
             ELSE /\ exc' = exc
                  /\ response' = out
                  /\ pc' = "resolve"
    /\ UNCHANGED <<policy, conversation_history, default_history, histArg, user_message,
                   request, action, reply, calls, inputs, replies, caller>>

\* the rest of decide_next_action, and run's `if action:` / fallback
Resolve ==
    /\ pc = "resolve"
    /\ LET res == ResolveResponse(response)
       IN IF res.kind = "raise"
          THEN exc' = res.exc /\ action' = action /\ reply' = reply /\ pc' = "except"
          ELSE IF res.action = NoAction
          THEN exc' = exc /\ action' = action /\ reply' = Fallback /\ pc' = "returned"
          ELSE exc' = exc /\ action' = res.action /\ reply' = reply /\ pc' = "execute"
    /\ UNCHANGED <<policy, conversation_history, default_history, histArg, user_message,
                   request, response, calls, inputs, replies, caller, stub>>

\* return action.execute(): what run does with execute's result
Finish(res) ==
    IF res.kind = "raise"
    THEN exc' = res.exc /\ reply' = reply /\ pc' = "except"
    ELSE exc' = exc /\ reply' = res.text /\ pc' = "returned"

ExecuteSearch ==
    /\ pc = "execute"
    /\ action.variant = "Search"
    /\ calls' = [calls EXCEPT !.execute = @ + 1, !.collaborator = @ + 1]
    /\ \E out \in SearchOutcomes :
          /\ MayAnswer("search", action.keywords, out)
          /\ stub' = Remember("search", action.keywords, out)
          /\ Finish(SearchExecute(action, out))
    /\ UNCHANGED <<policy, conversation_history, default_history, histArg, user_message,
                   request, response, action, inputs, replies, caller>>

ExecuteGetProductDetails ==
    /\ pc = "execute"
    /\ action.variant = "GetProductDetails"
    /\ calls' = [calls EXCEPT !.execute = @ + 1, !.collaborator = @ + 1]
    /\ \E out \in DetailsOutcomes(action.product_id) :
          /\ MayAnswer("details", action.product_id, out)
          /\ stub' = Remember("details", action.product_id, out)
          /\ Finish(GetProductDetailsExecute(action, out))
    /\ UNCHANGED <<policy, conversation_history, default_history, histArg, user_message,
                   request, response, action, inputs, replies, caller>>

ExecuteClarify ==
    /\ pc = "execute"
    /\ action.variant = "Clarify"
    /\ calls' = [calls EXCEPT !.execute = @ + 1]
    /\ Finish(ClarifyExecute(action))
    /\ UNCHANGED <<policy, conversation_history, default_history, histArg, user_message,
                   request, response, action, inputs, replies, caller, stub>>

\* Caught for `except ValueError`: of the classes raised here only pydantic's
\* ValidationError is a ValueError
Caught_OnlyValueError(e) == e.cls \in {"ValidationError"}

\* the classes `except Exception` catches
Caught(e) == e.cls \in {"APIConnectionError", "ValidationError", "TypeError", "ConnectionError"}

\* RunExcept retrying the oracle call once after it failed
RunExcept_RetriesOracle ==
    /\ pc = "except"
    /\ IF exc.site = "oracle" /\ calls.oracle < 2
       THEN reply' = reply /\ pc' = "decide"
       ELSE IF Caught(exc)
       THEN reply' = Apology(exc) /\ pc' = "returned"
       ELSE reply' = reply /\ pc' = "crashed"
    /\ UNCHANGED <<policy, conversation_history, default_history, histArg, user_message,
                   request, response, action, exc, calls, inputs, replies, caller, stub>>

\* an exception leaves the try block of run
RunExcept ==
    /\ pc = "except"
    /\ IF Caught(exc)
       THEN reply' = Apology(exc) /\ pc' = "returned"
       ELSE reply' = reply /\ pc' = "crashed"
    /\ UNCHANGED <<policy, conversation_history, default_history, histArg, user_message,
                   request, response, action, exc, calls, inputs, replies, caller, stub>>

RunStep ==
    \/ RunGate
    \/ OracleCall
    \/ OracleAnswer
    \/ Resolve
    \/ ExecuteSearch
    \/ ExecuteGetProductDetails
    \/ ExecuteClarify
    \/ RunExcept

Next == MainInput \/ MainBye \/ MainRecord \/ RunStep

Spec == Init /\ [][Next]_vars
----------------------------------------------------------------------------
(* A harness that calls run directly, with deterministic test doubles *)

DirectInit ==
    /\ InitCommon
    /\ caller = "test"
    /\ conversation_history = << >>
    /\ user_message = ""
    /\ inputs = << >>
    /\ pc = "idle"

\* agent.run(um, history) or agent.run(um), which binds the default list
DirectCall ==
    /\ pc = "idle"
    /\ Len(replies) < MaxCalls
    /\ \E um \in Messages, ref \in {"caller", "default"} :
          EnterRun(um, ref, IF ref = "default" THEN default_history ELSE conversation_history)
    /\ UNCHANGED <<policy, conversation_history, default_history, replies, caller, stub>>

DirectReturn ==
    /\ pc = "returned"
    /\ caller = "test"
    /\ replies' = Append(replies, reply)
    /\ pc' = "idle"
    /\ UNCHANGED <<policy, conversation_history, default_history, histArg, user_message,
                   request, response, action, exc, reply, calls, inputs, caller, stub>>

DirectNext == DirectCall \/ DirectReturn \/ RunStep

DirectSpec == DirectInit /\ [][DirectNext]_vars

----------------------------------------------------------------------------
(* One call of run, for any message and any history *)

Histories == SeqsUpTo({Turn(r, c) : r \in Roles, c \in Contents}, MaxHistLen)

RunInit ==
    /\ InitCommon
    /\ caller = "test"
    /\ conversation_history \in Histories
    /\ user_message \in Messages
    /\ inputs = << [msg |-> user_message, ref |-> "caller", history |-> conversation_history] >>
    /\ pc = "gate"

RunSpec == RunInit /\ [][RunStep]_vars

----------------------------------------------------------------------------
(* Properties *)

InRun == pc \in {"gate", "decide", "awaiting", "resolve", "execute", "except"}

\* the history argument as it was when run was called
Snapshot == inputs[Len(inputs)].history

Recognized(turn) == turn.role \in {"user", "assistant", "system"}

\* the arguments the schema of the named function accepts
ValidArguments(name, raw) ==
    /\ raw.raw = "json"
    /\ raw.value.t = "obj"
    /\ \/ /\ name = "search_products"
          /\ HasKey(raw.value, "keywords")
          /\ IsStrList(Get(raw.value, "keywords"))
       \/ /\ name = "get_product_details"
          /\ HasKey(raw.value, "product_id")
          /\ IsStr(Get(raw.value, "product_id"))
       \/ /\ name = "clarify_request"
          /\ HasKey(raw.value, "question")
          /\ IsStr(Get(raw.value, "question"))

KnownNames == {"search_products", "get_product_details", "clarify_request"}

NamesFunction(resp) == resp.kind = "tool_call" /\ resp.function # NoFunction

\* C1: for every message, history and collaborator outcome, run ends the turn
\* by returning a string: no exception leaves run, run is never stuck before
\* it returns, and an exception raised inside it ends as the apology reply.
C1_RunAlwaysReturnsString ==
    /\ pc # "crashed"
    /\ InRun => ENABLED RunStep
    /\ pc = "returned" =>
          /\ reply \in STRING
          /\ exc # NoExc => reply = Apology(exc)

C1_Witness ==
    /\ pc = "returned"
    /\ exc.cls = "TypeError"
    /\ reply = Apology(exc)
    /\ Len(conversation_history) = MaxHistLen

\* C2: in the session loop, between turns the history holds exactly one user
\* turn and one assistant turn per processed message, in order, the k-th pair
\* being the k-th message and its reply, whichever path made the reply; a
\* failed turn leaves the loop running.
C2_HistoryPairs ==
    /\ pc # "crashed"
    /\ pc \in {"input", "exit"} =>
          /\ Len(inputs) = Len(replies)
          /\ Len(conversation_history) = 2 * Len(replies)
          /\ \A k \in 1..Len(replies) :
                /\ conversation_history[2 * k - 1] = Turn("user", inputs[k].msg)
                /\ conversation_history[2 * k] = Turn("assistant", replies[k])
    /\ (pc = "input" /\ Len(replies) < MaxTurns) => ENABLED MainInput

C2_Witness ==
    /\ pc = "input"
    /\ Len(replies) = 2
    /\ replies[1] = "Sorry, I encountered an error: Connection error."
    /\ replies[2] = Fallback
    /\ Len(conversation_history) = 4

\* C3: in a turn whose message is_intent_malicious holds for, run returns the
\* fixed refusal, and the resolver, the oracle, execute and the collaborators
\* are not invoked.
C3_RefusalBypassesEverything ==
    (inputs # << >> /\ is_intent_malicious(user_message)) =>
        /\ calls = NoCalls
        /\ request = << >>
        /\ pc \in {"gate", "returned", "input", "exit"}
        /\ pc # "gate" => reply = "Sorry! I cannot process this request."

C3_Witness ==
    /\ pc = "returned"
    /\ is_intent_malicious(user_message)
    /\ reply = Refusal
    /\ calls.oracle = 0

\* C4: decide_next_action raises for no oracle response: an unknown name,
\* arguments that fail validation and a payload that is not structured data
\* all end as "no decision".
C4_ResolverNeverRaises == exc.site # "resolve"

\* C5: the history handed to the resolver excludes the current user message,
\* so the request is the system turn, the turns of the earlier exchanges and
\* the current message once, last; the resolver leaves the stored history alone.
C5_RequestHasMessageOnce ==
    (InRun \/ pc = "returned") =>
        /\ Len(Snapshot) = 2 * Len(replies)
        /\ conversation_history = Snapshot
        /\ request # << >> =>
              /\ Len(request) = 2 + 2 * Len(replies)
              /\ request[Len(request)] = Turn("user", user_message)

\* C6: when the oracle names a known action with arguments that are malformed
\* or fail its schema, run replies with the generic fallback.
C6_InvalidArgumentsGiveFallback ==
    ( /\ pc = "returned"
      /\ NamesFunction(response)
      /\ response.function.name \in KnownNames
      /\ ~ValidArguments(response.function.name, response.function.arguments) )
    => reply = "I'm not sure how to respond to that."

\* C7: a failure of the search or details collaborator is caught inside
\* execute: no exception leaves execute.
C7_ExecuteNeverRaises == exc.site # "execute"

\* C8: run keeps no state between calls: calls with the same message and an
\* empty history (the caller's list or the default argument) get the same
\* reply from deterministic collaborators, the default list stays empty, and
\* the history argument is as it was when run was called.
C8_NoHiddenState ==
    /\ default_history = << >>
    /\ inputs # << >> => ArgHistory = Snapshot
    /\ \A i \in DOMAIN replies : \A j \in DOMAIN replies :
          ( /\ inputs[i].msg = inputs[j].msg
            /\ inputs[i].history = << >>
            /\ inputs[j].history = << >> )
          => replies[i] = replies[j]

C8_Witness ==
    /\ Len(replies) = 2
    /\ inputs[1].msg = inputs[2].msg
    /\ inputs[1].ref = "default"
    /\ inputs[2].ref = "default"
    /\ replies[2] = "Here are the products I found: Product 1 (ID: p1), Product 2 (ID: p2)"

\* C9: a turn issues at most one oracle call, exactly one once the gate has
\* let it past; when the call fails nothing is executed and the reply is the
\* apology with the failure's description; the assistant turn is appended
\* only after the call has completed.
C9_OneOracleCallNoRetry ==
    /\ calls.oracle <= 1
    /\ (inputs # << >> /\ pc \notin {"gate", "decide"}) =>
          calls.oracle = (IF is_intent_malicious(user_message) THEN 0 ELSE 1)
    /\ exc.site = "oracle" =>
          /\ calls.execute = 0
          /\ calls.collaborator = 0
          /\ action = NoAction
          /\ pc \in {"except", "returned", "input", "exit"}
          /\ pc # "except" => reply = "Sorry, I encountered an error: " \o exc.desc
    /\ pc \in {"decide", "awaiting"} => Len(conversation_history) = 2 * Len(replies) + 1

C9_Witness ==
    /\ pc = "input"
    /\ exc.site = "oracle"
    /\ calls.oracle = 1
    /\ Len(replies) = 1
    /\ replies[1] = "Sorry, I encountered an error: Connection error."

\* C10: the message list sent to the oracle is the system instruction, then
\* the history's turns of role user, assistant or system in their order with
\* their content, then the new user message; its length is 2 plus the number
\* of such turns.
C10_MessageList ==
    request # << >> =>
        /\ request = <<Turn("system", SYSTEM_PROMPT)>>
                     \o SelectSeq(Snapshot, Recognized)
                     \o <<Turn("user", user_message)>>
        /\ Len(request) =
              2 + Cardinality({i \in DOMAIN Snapshot : Recognized(Snapshot[i])})

C10_Witness ==
    /\ request # << >>
    /\ Len(Snapshot) = MaxHistLen
    /\ Snapshot[1].role = "tool"
    /\ Snapshot[Len(Snapshot)].role = "system"
    /\ Len(request) = Len(Snapshot) + 1

============================================================================
